---- MODULE Spec2Model ----
(***************************************************************************)
(* The M10 ledger server (src/server/src/main.rs) and the part of the      *)
(* command-line client that builds and signs a Transfer                    *)
(* (src/client/src/main.rs).                                               *)
(*                                                                         *)
(* The server keeps one HashMap of accounts behind one tokio Mutex.  Each  *)
(* request handler is a task; a handler step that takes the lock, works on *)
(* the map without awaiting and drops the guard is one action, and every   *)
(* `.await` on the lock is a point where other tasks interleave.           *)
(***************************************************************************)
EXTENDS Integers, Sequences, FiniteSets, TLC

\* ------------------------------------------------------------- bounds
\* Number of key pairs the random generator can produce.
NumIds == 2
\* Number of request tasks that can be in flight at once.
NumProcs == 2
\* Largest value of the balance/amount type (u64 in the code, narrowed here).
U64_MAX == 2
\* Largest nonce a caller picks.
MaxNonce == 0

Ids == 1..NumIds
Procs == 1..NumProcs
Nonces == 0..MaxNonce
Amounts == 0..U64_MAX
Names == {"acct"}
NoProc == 0

VARIABLES
    accounts,          \* Ledger.accounts: the HashMap, a function id -> Account
    lock,              \* holder of the Mutex guard, NoProc when free
    pc,                \* where each request task stands
    req,               \* the request a task is serving
    from_account,      \* create_transfer's local snapshot of the source
    to_account,        \* create_transfer's local snapshot of the destination
    resp,              \* the response a task has produced
    initial_accounts   \* the account map of the initial state (never changes)

vars == <<accounts, lock, pc, req, from_account, to_account, resp, initial_accounts>>

\* ------------------------------------------------------------- values
Account(id, name, balance, is_frozen) ==
    [id |-> id, name |-> name, balance |-> balance, is_frozen |-> is_frozen]

NoAccount == [id |-> 0, name |-> "", balance |-> 0, is_frozen |-> FALSE]
NoReq == [op |-> "none"]
NoResp == [kind |-> "none"]

\* secp256k1 key pair number k: the public key is the account id k.
SecretKey(k) == 0 - k
PublicKeyOf(sk) == 0 - sk

\* u64::to_le_bytes: eight bytes, least significant first.
RECURSIVE LeBytes(_, _)
LeBytes(n, k) == IF k = 0 THEN <<>> ELSE <<n % 256>> \o LeBytes(n \div 256, k - 1)
to_le_bytes(n) == LeBytes(n, 8)

\* The bytes of an identity: one fixed-size block per public key.
IdBytes(id) == <<id>>

\* SHA-256, taken as collision free: a digest is determined by, and determines,
\* the bytes hashed.
Sha256Digest(message) == [sha256 |-> message]

\* ECDSA: a compact signature is well formed or not; a well-formed one verifies
\* exactly for the digest it was made over and the public key of its signer.
sign_ecdsa(digest, sk) == [wellformed |-> TRUE, signer |-> sk, digest |-> digest]
MalformedSignature == [wellformed |-> FALSE, signer |-> 0, digest |-> Sha256Digest(<<>>)]
verify_ecdsa(digest, signature, public_key) ==
    /\ PublicKeyOf(signature.signer) = public_key
    /\ signature.digest = digest

\* Option<u64>::None
NoneU64 == 0 - 1

checked_sub(a, b) == IF b > a THEN NoneU64 ELSE a - b
\* The addition without its overflow check.
unchecked_add(a, b) == a + b
checked_add(a, b) == IF a + b > U64_MAX THEN NoneU64 ELSE a + b

TransferError(code, message) == [code |-> code, message |-> message]
NoError == [code |-> "None", message |-> ""]

\* Ok(Response::new(TransferResult { error }))
TransferResult(error) == [kind |-> "TransferResult", error |-> error]
\* Err(Status::not_found(..)): the RPC itself fails
StatusNotFound == [kind |-> "Status", code |-> "NotFound", message |-> "Account not found"]

\* ------------------------------------------------------------- client
\* Cmd::Transfer: the message the client hashes and signs, and the request it sends.
ClientMessage(from, to, amount, nonce) ==
    IdBytes(from) \o IdBytes(to) \o to_le_bytes(amount) \o to_le_bytes(nonce)

ClientTransfer(from, to, amount, nonce, private_key) ==
    [op |-> "create_transfer",
     from_account |-> from,
     to_account |-> to,
     amount |-> amount,
     signature |-> sign_ecdsa(Sha256Digest(ClientMessage(from, to, amount, nonce)), private_key),
     nonce |-> nonce]

\* ------------------------------------------------------------- server, pure parts
create_transfer_message_hash(transfer) ==
    Sha256Digest(IdBytes(transfer.from_account) \o IdBytes(transfer.to_account)
                 \o to_le_bytes(transfer.amount))

\* PublicKey::from_slice on a stored id: ids in the map are serialized public keys.
ValidPublicKey(id) == id \in Ids

\* The same checks with the signature verified before the freeze flags.
verify_signature_first(transfer, from_acc, to_acc, message_hash) ==
    IF ~ValidPublicKey(from_acc.id)
        THEN TransferError("InvalidSignature", "Invalid public key")
    ELSE IF ~transfer.signature.wellformed
        THEN TransferError("InvalidSignature", "Invalid signature format")
    ELSE IF ~verify_ecdsa(message_hash, transfer.signature, from_acc.id)
        THEN TransferError("InvalidSignature", "Invalid signature")
    ELSE IF from_acc.is_frozen
        THEN TransferError("FrozenAccount", "From account is frozen")
    ELSE IF to_acc.is_frozen
        THEN TransferError("FrozenAccount", "To account is frozen")
    ELSE NoError

\* The same checks behind a record of used requests: a request equal to one that
\* has already succeeded is refused.
verify_rejecting_replay(transfer, from_acc, to_acc, message_hash) ==
    IF \E p \in Procs : /\ pc[p] = "done"
                        /\ req[p] = transfer
                        /\ resp[p] = TransferResult(NoError)
        THEN TransferError("InvalidSignature", "Nonce already used")
    ELSE IF from_acc.is_frozen
        THEN TransferError("FrozenAccount", "From account is frozen")
    ELSE IF to_acc.is_frozen
        THEN TransferError("FrozenAccount", "To account is frozen")
    ELSE IF ~ValidPublicKey(from_acc.id)
        THEN TransferError("InvalidSignature", "Invalid public key")
    ELSE IF ~transfer.signature.wellformed
        THEN TransferError("InvalidSignature", "Invalid signature format")
    ELSE IF ~verify_ecdsa(message_hash, transfer.signature, from_acc.id)
        THEN TransferError("InvalidSignature", "Invalid signature")
    ELSE NoError

\* The checks in the order of the code.  Message::from_slice gets the 32 bytes of a
\* SHA-256 digest and cannot fail, so it has no branch here.
verify_transfer_conditions(transfer, from_acc, to_acc, message_hash) ==
    IF from_acc.is_frozen
        THEN TransferError("FrozenAccount", "From account is frozen")
    ELSE IF to_acc.is_frozen
        THEN TransferError("FrozenAccount", "To account is frozen")
    ELSE IF ~ValidPublicKey(from_acc.id)
        THEN TransferError("InvalidSignature", "Invalid public key")
    ELSE IF ~transfer.signature.wellformed
        THEN TransferError("InvalidSignature", "Invalid signature format")
    ELSE IF ~verify_ecdsa(message_hash, transfer.signature, from_acc.id)
        THEN TransferError("InvalidSignature", "Invalid signature")
    ELSE NoError

\* update_balances, first half: the two checked computations on the snapshots.
new_from_balance(transfer, from_acc) == checked_sub(from_acc.balance, transfer.amount)
new_to_balance(transfer, to_acc) == checked_add(to_acc.balance, transfer.amount)

\* ------------------------------------------------------------- requests
\* The Transfer requests a caller can send: any pair of identities, any amount and
\* nonce, and a signature that is the client's own (over ClientMessage), one over
\* the bytes the server hashes made with any key, or not a compact signature.
TransferSignatures(from, to, amount, nonce) ==
    {ClientTransfer(from, to, amount, nonce, SecretKey(from)).signature}
    \cup {sign_ecdsa(create_transfer_message_hash(
              [from_account |-> from, to_account |-> to, amount |-> amount]),
              SecretKey(k)) : k \in Ids}
    \cup {MalformedSignature}

TransferRequests ==
    UNION {{[op |-> "create_transfer", from_account |-> f, to_account |-> t,
             amount |-> a, signature |-> s, nonce |-> n]
              : s \in TransferSignatures(f, t, a, n)}
           : <<f, t, a, n>> \in Ids \X Ids \X Amounts \X Nonces}

\* ------------------------------------------------------------- initial state
\* Ledger::default(): an empty map, a free mutex, no request in flight.
Init ==
    /\ accounts = <<>>
    /\ lock = NoProc
    /\ pc = [p \in Procs |-> "idle"]
    /\ req = [p \in Procs |-> NoReq]
    /\ from_account = [p \in Procs |-> NoAccount]
    /\ to_account = [p \in Procs |-> NoAccount]
    /\ resp = [p \in Procs |-> NoResp]
    /\ initial_accounts = accounts

\* A handler returns: the task ends with response r.
Finish(p, r) ==
    /\ pc' = [pc EXCEPT ![p] = "done"]
    /\ resp' = [resp EXCEPT ![p] = r]
    /\ from_account' = [from_account EXCEPT ![p] = NoAccount]
    /\ to_account' = [to_account EXCEPT ![p] = NoAccount]

Insert(map, id, account) ==
    [k \in DOMAIN map \cup {id} |-> IF k = id THEN account ELSE map[k]]

\* ------------------------------------------------------------- handlers
\* create_account with the key pair drawn from `keys`.
create_account_with(p, keys) ==
    /\ pc[p] = "idle"
    /\ lock = NoProc
    /\ \E name \in Names, balance \in Amounts, k \in keys :
          LET account == Account(k, name, balance, FALSE) IN
          /\ req' = [req EXCEPT ![p] = [op |-> "create_account", name |-> name,
                                        balance |-> balance]]
          /\ accounts' = Insert(accounts, account.id, account)
          /\ Finish(p, [kind |-> "CreateAccountResponse", account |-> account,
                        private_key |-> SecretKey(k)])
    /\ UNCHANGED <<lock, initial_accounts>>

\* generate_keypair(&mut OsRng): a fresh 256-bit key; it names no existing account.
create_account(p) == create_account_with(p, Ids \ DOMAIN accounts)

\* The map lookup of get_account.
GetAccountResult(map, id) ==
    IF id \in DOMAIN map THEN [kind |-> "Account", account |-> map[id]]
    ELSE StatusNotFound

get_account(p) ==
    /\ pc[p] = "idle"
    /\ lock = NoProc
    /\ \E id \in Ids :
          /\ req' = [req EXCEPT ![p] = [op |-> "get_account", id |-> id]]
          /\ Finish(p, GetAccountResult(accounts, id))
    /\ UNCHANGED <<accounts, lock, initial_accounts>>

\* freeze_account reporting success whether or not the flag changed.
freeze_account_always_success(p) ==
    /\ pc[p] = "idle"
    /\ lock = NoProc
    /\ \E id \in Ids :
          /\ req' = [req EXCEPT ![p] = [op |-> "freeze_account", id |-> id]]
          /\ IF id \notin DOMAIN accounts
                THEN /\ Finish(p, StatusNotFound)
                     /\ UNCHANGED accounts
             ELSE /\ accounts' = [accounts EXCEPT ![id].is_frozen = TRUE]
                  /\ Finish(p, [kind |-> "FreezeAccountResponse", success |-> TRUE,
                                message |-> "Account has been frozen"])
    /\ UNCHANGED <<lock, initial_accounts>>

\* freeze_account, lines 33-52: under the lock, NotFound for an unknown id, a
\* refusal for a frozen account, else the flag is set.
freeze_account(p) ==
    /\ pc[p] = "idle"
    /\ lock = NoProc
    /\ \E id \in Ids :
          /\ req' = [req EXCEPT ![p] = [op |-> "freeze_account", id |-> id]]
          /\ IF id \notin DOMAIN accounts
                THEN /\ Finish(p, StatusNotFound)
                     /\ UNCHANGED accounts
             ELSE IF accounts[id].is_frozen
                THEN /\ Finish(p, [kind |-> "FreezeAccountResponse", success |-> FALSE,
                                   message |-> "Account is already frozen"])
                     /\ UNCHANGED accounts
             ELSE /\ accounts' = [accounts EXCEPT ![id].is_frozen = TRUE]
                  /\ Finish(p, [kind |-> "FreezeAccountResponse", success |-> TRUE,
                                message |-> "Account has been frozen"])
    /\ UNCHANGED <<lock, initial_accounts>>

\* unfreeze_account, lines 54-73: the mirror image of freeze_account.
unfreeze_account(p) ==
    /\ pc[p] = "idle"
    /\ lock = NoProc
    /\ \E id \in Ids :
          /\ req' = [req EXCEPT ![p] = [op |-> "unfreeze_account", id |-> id]]
          /\ IF id \notin DOMAIN accounts
                THEN /\ Finish(p, StatusNotFound)
                     /\ UNCHANGED accounts
             ELSE IF ~accounts[id].is_frozen
                THEN /\ Finish(p, [kind |-> "UnfreezeAccountResponse", success |-> FALSE,
                                   message |-> "Account is not frozen"])
                     /\ UNCHANGED accounts
             ELSE /\ accounts' = [accounts EXCEPT ![id].is_frozen = FALSE]
                  /\ Finish(p, [kind |-> "UnfreezeAccountResponse", success |-> TRUE,
                                message |-> "Account has been unfrozen"])
    /\ UNCHANGED <<lock, initial_accounts>>

\* get_history never touches the map or the lock and always answers an empty list.
get_history(p) ==
    /\ pc[p] = "idle"
    /\ \E id \in Ids :
          /\ req' = [req EXCEPT ![p] = [op |-> "get_history", id |-> id]]
          /\ Finish(p, [kind |-> "GetHistoryResponse", actions |-> <<>>])
    /\ UNCHANGED <<accounts, lock, initial_accounts>>

\* create_transfer, lines 121-124, for a request drawn from `requests`: the request
\* arrives and get_account(from) locks, clones the record, unlocks; `?` turns a
\* missing account into the RPC's own failure.
create_transfer_from(p, requests) ==
    /\ pc[p] = "idle"
    /\ lock = NoProc
    /\ \E transfer \in requests :
          LET r == GetAccountResult(accounts, transfer.from_account) IN
          /\ req' = [req EXCEPT ![p] = transfer]
          /\ IF r.kind = "Account"
                THEN /\ from_account' = [from_account EXCEPT ![p] = r.account]
                     /\ pc' = [pc EXCEPT ![p] = "get_to"]
                     /\ UNCHANGED <<to_account, resp>>
                ELSE Finish(p, r)
    /\ UNCHANGED <<accounts, lock, initial_accounts>>

create_transfer_get_from(p) == create_transfer_from(p, TransferRequests)

\* The guard of get_account still held by the caller after the call.
GuardKept(p) == p
\* get_account's guard is a local of get_account (line 108) and is dropped when it
\* returns: create_transfer holds no guard when it goes on to line 134.
GuardAfterGetAccount(p) == NoProc

\* create_transfer, lines 125-132: get_account(to), then verify_transfer_conditions
\* on the two snapshots.
create_transfer_get_to(p) ==
    /\ pc[p] = "get_to"
    /\ lock = NoProc
    /\ LET r == GetAccountResult(accounts, req[p].to_account) IN
          IF r.kind = "Account"
             THEN LET err == verify_transfer_conditions(req[p], from_account[p], r.account,
                                 create_transfer_message_hash(req[p])) IN
                  IF err = NoError
                     THEN /\ to_account' = [to_account EXCEPT ![p] = r.account]
                          /\ pc' = [pc EXCEPT ![p] = "lock"]
                          /\ UNCHANGED <<from_account, resp>>
                     ELSE Finish(p, TransferResult(err))
             ELSE Finish(p, r)
    /\ lock' = GuardAfterGetAccount(p)
    /\ UNCHANGED <<accounts, req, initial_accounts>>

\* The guard dropped after the first write.
GuardDropped(p) == NoProc
\* The MutexGuard taken at line 134 is moved into update_balances (line 219) and
\* lives until it returns: between the two writes the lock is still p's.
GuardOwner(p) == p

\* create_transfer, line 134, and update_balances, lines 223-244: take the lock,
\* compute both new balances from the snapshots, write the source's.
create_transfer_debit(p) ==
    /\ pc[p] = "lock"
    /\ lock = NoProc
    /\ LET nf == new_from_balance(req[p], from_account[p])
           nt == new_to_balance(req[p], to_account[p]) IN
          IF nf = NoneU64
             THEN /\ Finish(p, TransferResult(TransferError("InsufficientBalance",
                                                            "Insufficient balance")))
                  /\ UNCHANGED <<accounts, lock>>
          ELSE IF nt = NoneU64
             THEN /\ Finish(p, TransferResult(TransferError("BalanceOverflow",
                                                            "Balance overflow")))
                  /\ UNCHANGED <<accounts, lock>>
          ELSE IF req[p].from_account \notin DOMAIN accounts
             THEN /\ Finish(p, TransferResult(TransferError("AccountNotFound",
                                                            "From account not found")))
                  /\ UNCHANGED <<accounts, lock>>
          ELSE /\ accounts' = [accounts EXCEPT ![req[p].from_account].balance = nf]
               /\ lock' = GuardOwner(p)
               /\ pc' = [pc EXCEPT ![p] = "credit"]
               /\ UNCHANGED <<from_account, to_account, resp>>
    /\ UNCHANGED <<req, initial_accounts>>

\* The credit stored as a whole record built from the snapshot.
create_transfer_credit_record(p) ==
    /\ pc[p] = "credit"
    /\ lock = p
    /\ IF req[p].to_account \notin DOMAIN accounts
          THEN /\ Finish(p, TransferResult(TransferError("AccountNotFound",
                                                         "To account not found")))
               /\ UNCHANGED accounts
          ELSE /\ accounts' = [accounts EXCEPT ![req[p].to_account] =
                                   [to_account[p] EXCEPT !.balance =
                                       new_to_balance(req[p], to_account[p])]]
               /\ Finish(p, TransferResult(NoError))
    /\ lock' = NoProc
    /\ UNCHANGED <<req, initial_accounts>>

\* update_balances, lines 246-256: write the destination's balance, return, and
\* drop the guard.
create_transfer_credit(p) ==
    /\ pc[p] = "credit"
    /\ lock = p
    /\ IF req[p].to_account \notin DOMAIN accounts
          THEN /\ Finish(p, TransferResult(TransferError("AccountNotFound",
                                                         "To account not found")))
               /\ UNCHANGED accounts
          ELSE /\ accounts' = [accounts EXCEPT ![req[p].to_account].balance =
                                   new_to_balance(req[p], to_account[p])]
               /\ Finish(p, TransferResult(NoError))
    /\ lock' = NoProc
    /\ UNCHANGED <<req, initial_accounts>>

\* The response has been sent; the task slot serves the next request.
Return(p) ==
    /\ pc[p] = "done"
    /\ pc' = [pc EXCEPT ![p] = "idle"]
    /\ req' = [req EXCEPT ![p] = NoReq]
    /\ resp' = [resp EXCEPT ![p] = NoResp]
    /\ UNCHANGED <<accounts, lock, from_account, to_account, initial_accounts>>

create_transfer(p) ==
    \/ create_transfer_get_from(p)
    \/ create_transfer_get_to(p)
    \/ create_transfer_debit(p)
    \/ create_transfer_credit(p)

Next ==
    \E p \in Procs :
        \/ create_account(p)
        \/ get_account(p)
        \/ freeze_account(p)
        \/ unfreeze_account(p)
        \/ get_history(p)
        \/ create_transfer(p)
        \/ Return(p)

Spec == Init /\ [][Next]_vars

\* ------------------------------------------------------------- two opposite transfers
\* Two accounts exist, unfrozen, with any balances; task 1 moves an amount from
\* account 1 to account 2 while task 2 moves the same amount from 2 to 1, each
\* signed by its source's key over the bytes the server hashes.
PairIds == {1, 2}
PairProcs == {1, 2}

InitPair ==
    /\ \E b \in [PairIds -> Amounts] :
          accounts = [id \in PairIds |-> Account(id, "acct", b[id], FALSE)]
    /\ lock = NoProc
    /\ pc = [p \in Procs |-> "idle"]
    /\ req = [p \in Procs |-> NoReq]
    /\ from_account = [p \in Procs |-> NoAccount]
    /\ to_account = [p \in Procs |-> NoAccount]
    /\ resp = [p \in Procs |-> NoResp]
    /\ initial_accounts = accounts

PairRequest(p, amount) ==
    LET from == p
        to == 3 - p
        unsigned == [from_account |-> from, to_account |-> to, amount |-> amount] IN
    [op |-> "create_transfer", from_account |-> from, to_account |-> to,
     amount |-> amount,
     signature |-> sign_ecdsa(create_transfer_message_hash(unsigned), SecretKey(from)),
     nonce |-> 0]

PairAmounts(p) ==
    IF req[3 - p] = NoReq THEN Amounts ELSE {req[3 - p].amount}

pair_transfer(p) ==
    \/ create_transfer_from(p, {PairRequest(p, a) : a \in PairAmounts(p)})
    \/ create_transfer_get_to(p)
    \/ create_transfer_debit(p)
    \/ create_transfer_credit(p)

NextPair == \E p \in PairProcs : pair_transfer(p)

SpecPair == InitPair /\ [][NextPair]_vars

\* ------------------------------------------------------------- any key pair
\* generate_keypair can return any key pair, the key of an existing account
\* included: account creation with nothing assumed about the generator, next to
\* the handlers that read and flag accounts.
create_account_any(p) == create_account_with(p, Ids)

NextAnyKey ==
    \E p \in Procs :
        \/ create_account_any(p)
        \/ get_account(p)
        \/ freeze_account(p)
        \/ unfreeze_account(p)
        \/ Return(p)

SpecAnyKey == Init /\ [][NextAnyKey]_vars

\* ------------------------------------------------------------- fair scheduling
\* Requests on an empty ledger under a fair mutex.  Transfers move one unit and are
\* signed by their source over the bytes the server hashes.  tokio's Mutex queues its waiters in
\* order, so a task waiting at a lock().await gets the lock once it has been
\* released often enough (strong fairness of the steps that take it); a task
\* holding the guard runs to its drop without awaiting (weak fairness).
LiveAmounts == {1}

\* The transfers of the given amounts that pass the server's signature check.
SignedRequests(amounts) ==
    {[op |-> "create_transfer", from_account |-> f, to_account |-> t, amount |-> a,
      signature |-> sign_ecdsa(create_transfer_message_hash(
                        [from_account |-> f, to_account |-> t, amount |-> a]),
                        SecretKey(f)),
      nonce |-> 0] : <<f, t, a>> \in Ids \X Ids \X amounts}

LiveRequests == SignedRequests(LiveAmounts)

live_transfer(p) ==
    \/ create_transfer_from(p, LiveRequests)
    \/ create_transfer_get_to(p)
    \/ create_transfer_debit(p)
    \/ create_transfer_credit(p)

NextLive ==
    \E p \in Procs :
        \/ create_account(p)
        \/ get_account(p)
        \/ freeze_account(p)
        \/ unfreeze_account(p)
        \/ get_history(p)
        \/ live_transfer(p)
        \/ Return(p)

FairMutex ==
    \A p \in Procs :
        /\ SF_vars(create_transfer_get_to(p))
        /\ SF_vars(create_transfer_debit(p))
        /\ WF_vars(create_transfer_credit(p))

SpecLive == Init /\ [][NextLive]_vars /\ FairMutex

\* ------------------------------------------------------------- update_balances alone
\* One call of update_balances(transfer, accounts, from_account, to_account) with
\* any arguments: any account map under the guard, any transfer, any two records
\* as the snapshots of its source and destination.  Task 1 stands at the call.
AccountMaps ==
    UNION {{[id \in S |-> Account(id, "acct", b[id], FALSE)] : b \in [S -> Amounts]}
           : S \in SUBSET Ids}

InitUpdate ==
    /\ accounts \in AccountMaps
    /\ lock = NoProc
    /\ pc = [p \in Procs |-> IF p = 1 THEN "lock" ELSE "idle"]
    /\ \E transfer \in SignedRequests(Amounts) :
          req = [p \in Procs |-> IF p = 1 THEN transfer ELSE NoReq]
    /\ \E b \in Amounts :
          from_account = [p \in Procs |->
              IF p = 1 THEN Account(req[1].from_account, "acct", b, FALSE) ELSE NoAccount]
    /\ \E b \in Amounts :
          to_account = [p \in Procs |->
              IF p = 1 THEN Account(req[1].to_account, "acct", b, FALSE) ELSE NoAccount]
    /\ resp = [p \in Procs |-> NoResp]
    /\ initial_accounts = accounts

NextUpdate ==
    \E p \in Procs :
        \/ create_transfer_debit(p)
        \/ create_transfer_credit(p)

SpecUpdate == InitUpdate /\ [][NextUpdate]_vars

\* ------------------------------------------------------------- properties
IsTransfer(p) == req[p].op = "create_transfer"
Succeeded(p) == pc[p] = "done" /\ IsTransfer(p) /\ resp[p] = TransferResult(NoError)
Failed(p, code) ==
    /\ pc[p] = "done"
    /\ IsTransfer(p)
    /\ resp[p].kind = "TransferResult"
    /\ resp[p].error.code = code
Exists(id) == id \in DOMAIN accounts
Balance(id) == accounts[id].balance

\* The signature is a valid signature, by the source identity's key, of the message
\* a transfer's signer signs (source ++ destination ++ amount ++ nonce).
SignedBySource(transfer) ==
    /\ transfer.signature.wellformed
    /\ verify_ecdsa(Sha256Digest(ClientMessage(transfer.from_account, transfer.to_account,
                                               transfer.amount, transfer.nonce)),
                    transfer.signature, transfer.from_account)

\* Task p takes its step out of position `at`.
Leaves(p, at) == pc[p] = at /\ pc'[p] # at

\* C1: every account's balance is within 0..U64_MAX in every reachable state.
C1_BalancesInRange ==
    \A id \in DOMAIN accounts : Balance(id) \in 0..U64_MAX

\* C1 witness: a transfer was refused with BalanceOverflow where the credit would
\* have passed the largest value.
C1_Witness ==
    \E p \in Procs :
        /\ Failed(p, "BalanceOverflow")
        /\ Exists(req[p].to_account)
        /\ Balance(req[p].to_account) + req[p].amount > U64_MAX

\* C2: a successful transfer of X from A to B lowers balance(A) by exactly X when
\* it debits and raises balance(B) by exactly X when it credits, both within its one
\* critical section, so that the sum over the accounts involved is unchanged (for
\* A = B: the balance ends where it started).
C2_TransferMovesExactlyX ==
    [][\A p \in Procs :
          /\ (pc[p] = "lock" /\ pc'[p] = "credit") =>
                accounts'[req[p].from_account].balance
                   = Balance(req[p].from_account) - req[p].amount
          /\ (pc[p] = "credit" /\ resp'[p] = TransferResult(NoError)) =>
                accounts'[req[p].to_account].balance
                   = Balance(req[p].to_account) + req[p].amount]_vars

\* C3: when the transfers 1 -> 2 and 2 -> 1 of the same amount have both succeeded,
\* balance(1) + balance(2) is what it was before either started.
C3_OppositeTransfersConserve ==
    (\A p \in PairProcs : Succeeded(p)) =>
        Balance(1) + Balance(2)
           = initial_accounts[1].balance + initial_accounts[2].balance

\* C4: when a transfer enters its critical section and writes, the snapshots it
\* checked and computes from hold the current balances of its source and its
\* destination: no other transfer's write came between its reads and its write.
C4_SnapshotsCurrentAtWrite ==
    [][\A p \in Procs :
          Leaves(p, "lock") =>
             /\ from_account[p].balance = Balance(req[p].from_account)
             /\ to_account[p].balance = Balance(req[p].to_account)]_vars

\* C5: whenever the lock is free, no transfer has applied its debit without its
\* credit: a transfer between its two writes holds the lock, and no transfer ends
\* after the first write alone.
C5_BothLegsOrNeither ==
    \A p \in Procs :
        /\ pc[p] = "credit" => lock = p
        /\ ~(Failed(p, "AccountNotFound") /\ resp[p].error.message = "To account not found")

\* C5 witness: a transfer stands between its two writes while another request
\* waits for the lock to read the map.
C5_Witness ==
    \E p, q \in Procs :
        /\ pc[p] = "credit"
        /\ req[p].from_account # req[p].to_account
        /\ req[p].amount > 0
        /\ pc[q] \in {"get_to", "lock"}

\* C6 as stated: a transfer whose source exists and is frozen when the transfer
\* reads it ends with FrozenAccount and writes nothing.
C6_FrozenSourceAlwaysFrozenAccount ==
    [][\A p \in Procs :
          (Leaves(p, "get_to") /\ from_account[p].is_frozen) =>
             /\ resp'[p].kind = "TransferResult"
             /\ resp'[p].error.code = "FrozenAccount"
             /\ accounts' = accounts]_vars

\* C6 amended: a transfer whose source is frozen when the transfer reads it and
\* whose destination exists ends with FrozenAccount, whatever its signature and
\* amount, and writes nothing.
C6_FrozenSourceExistingDestination ==
    [][\A p \in Procs :
          /\ (Leaves(p, "idle") /\ IsTransfer(p)' /\ from_account'[p].is_frozen) =>
                accounts' = accounts
          /\ (Leaves(p, "get_to") /\ from_account[p].is_frozen
                /\ Exists(req[p].to_account)) =>
                /\ resp'[p] = TransferResult(TransferError("FrozenAccount",
                                                           "From account is frozen"))
                /\ accounts' = accounts]_vars

\* C6 witness: a transfer from a frozen source, with a signature that does not
\* verify and an amount above the source's balance, has ended with FrozenAccount.
C6_Witness ==
    \E p \in Procs :
        /\ Failed(p, "FrozenAccount")
        /\ resp[p].error.message = "From account is frozen"
        /\ Exists(req[p].to_account)
        /\ accounts[req[p].from_account].is_frozen
        /\ ~req[p].signature.wellformed
        /\ req[p].amount > Balance(req[p].from_account)

\* C7: a transfer that has passed the freeze and signature checks and reaches its
\* balance check while both accounts are unfrozen and its amount is above the
\* source's balance ends with InsufficientBalance and writes nothing.
C7_AboveBalanceIsInsufficient ==
    [][\A p \in Procs :
          (/\ Leaves(p, "lock")
           /\ ~accounts[req[p].from_account].is_frozen
           /\ ~accounts[req[p].to_account].is_frozen
           /\ req[p].amount > Balance(req[p].from_account)) =>
             /\ resp'[p] = TransferResult(TransferError("InsufficientBalance",
                                                        "Insufficient balance"))
             /\ accounts' = accounts]_vars

\* C8: a transfer between existing accounts, unfrozen when it reads them, whose
\* signature is not a valid signature of its message by the source's key ends
\* with InvalidSignature and writes nothing.
C8_BadSignatureIsInvalidSignature ==
    [][\A p \in Procs :
          (/\ Leaves(p, "get_to")
           /\ ~from_account[p].is_frozen
           /\ Exists(req[p].to_account)
           /\ ~accounts[req[p].to_account].is_frozen
           /\ ~SignedBySource(req[p])) =>
             /\ resp'[p].kind = "TransferResult"
             /\ resp'[p].error.code = "InvalidSignature"
             /\ accounts' = accounts]_vars

\* C9: a transfer built and signed by the client with the source account's private
\* key is never refused with InvalidSignature.
C9_ClientSignatureVerifies ==
    \A p \in Procs :
        (/\ pc[p] = "done"
         /\ IsTransfer(p)
         /\ req[p] = ClientTransfer(req[p].from_account, req[p].to_account,
                                    req[p].amount, req[p].nonce,
                                    SecretKey(req[p].from_account)))
        => ~Failed(p, "InvalidSignature")

\* C10: a transfer whose source or destination is not in the account map ends with
\* a TransferResult carrying AccountNotFound.
C10_UnknownAccountIsTransferError ==
    \A p \in Procs :
        (/\ pc[p] = "done"
         /\ IsTransfer(p)
         /\ (~Exists(req[p].from_account) \/ ~Exists(req[p].to_account)))
        => Failed(p, "AccountNotFound")

\* The checks of a transfer in the order the claim fixes, on the records the
\* transfer reads: the code of the first one that fails, "None" when all pass.
FirstFailingCheck(transfer, found, from_acc, to_acc) ==
    IF ~found THEN "AccountNotFound"
    ELSE IF from_acc.is_frozen THEN "FrozenAccount"
    ELSE IF to_acc.is_frozen THEN "FrozenAccount"
    ELSE IF ~SignedBySource(transfer) THEN "InvalidSignature"
    ELSE IF transfer.amount > from_acc.balance THEN "InsufficientBalance"
    ELSE IF to_acc.balance + transfer.amount > U64_MAX THEN "BalanceOverflow"
    ELSE "None"

\* How many of the six checks fail.
FailingChecks(transfer, found, from_acc, to_acc) ==
    Cardinality({c \in 1..6 :
        \/ c = 1 /\ ~found
        \/ c = 2 /\ found /\ from_acc.is_frozen
        \/ c = 3 /\ found /\ to_acc.is_frozen
        \/ c = 4 /\ ~SignedBySource(transfer)
        \/ c = 5 /\ found /\ transfer.amount > from_acc.balance
        \/ c = 6 /\ found /\ to_acc.balance + transfer.amount > U64_MAX})

\* The records a transfer that is finishing has read or is reading.
ReadFrom(p) ==
    IF pc[p] = "idle" THEN
        IF Exists(req'[p].from_account) THEN accounts[req'[p].from_account] ELSE NoAccount
    ELSE from_account[p]
ReadTo(p) ==
    IF pc[p] = "lock" THEN to_account[p]
    ELSE IF Exists(req'[p].to_account) THEN accounts[req'[p].to_account] ELSE NoAccount

\* C11: a transfer that fails two or more of the six checks at once ends with a
\* TransferResult carrying the error of the first failing check in the order
\* AccountNotFound, source frozen, destination frozen, InvalidSignature,
\* InsufficientBalance, BalanceOverflow.
C11_FirstFailingCheckIsReturned ==
    [][\A p \in Procs :
          (/\ pc[p] \in {"idle", "get_to", "lock"}
           /\ pc'[p] = "done"
           /\ IsTransfer(p)'
           /\ FailingChecks(req'[p],
                 Exists(req'[p].from_account) /\ Exists(req'[p].to_account),
                 ReadFrom(p), ReadTo(p)) >= 2) =>
             /\ resp'[p].kind = "TransferResult"
             /\ resp'[p].error.code =
                  FirstFailingCheck(req'[p],
                     Exists(req'[p].from_account) /\ Exists(req'[p].to_account),
                     ReadFrom(p), ReadTo(p))]_vars

\* Task p serves a request of kind `op` in this step.
Serves(p, op) == pc[p] = "idle" /\ pc'[p] = "done" /\ req'[p].op = op

\* C12: FreezeAccount on an existing account answers success = TRUE exactly when
\* the account was not frozen and always leaves it frozen; on a frozen account it
\* answers success = FALSE with a message of its own, as a response and not an
\* error, and changes nothing; UnfreezeAccount mirrors this; both answer NotFound
\* for an unknown identity and change nothing.
C12_FreezeUnfreezeIdempotent ==
    [][\A p \in Procs :
          /\ Serves(p, "freeze_account") =>
                LET id == req'[p].id IN
                IF ~Exists(id) THEN resp'[p] = StatusNotFound /\ accounts' = accounts
                ELSE /\ resp'[p].kind = "FreezeAccountResponse"
                     /\ resp'[p].success = ~accounts[id].is_frozen
                     /\ accounts'[id].is_frozen
                     /\ accounts' = [accounts EXCEPT ![id].is_frozen = TRUE]
                     /\ accounts[id].is_frozen =>
                           /\ accounts' = accounts
                           /\ resp'[p].message = "Account is already frozen"
                     /\ ~accounts[id].is_frozen =>
                           resp'[p].message # "Account is already frozen"
          /\ Serves(p, "unfreeze_account") =>
                LET id == req'[p].id IN
                IF ~Exists(id) THEN resp'[p] = StatusNotFound /\ accounts' = accounts
                ELSE /\ resp'[p].kind = "UnfreezeAccountResponse"
                     /\ resp'[p].success = accounts[id].is_frozen
                     /\ ~accounts'[id].is_frozen
                     /\ accounts' = [accounts EXCEPT ![id].is_frozen = FALSE]
                     /\ ~accounts[id].is_frozen =>
                           /\ accounts' = accounts
                           /\ resp'[p].message = "Account is not frozen"
                     /\ accounts[id].is_frozen =>
                           resp'[p].message # "Account is not frozen"]_vars

\* C12 witness: a FreezeAccount on a frozen account has answered success = FALSE
\* and the account is still frozen.
C12_Witness ==
    \E p \in Procs :
        /\ pc[p] = "done"
        /\ req[p].op = "freeze_account"
        /\ resp[p].kind = "FreezeAccountResponse"
        /\ ~resp[p].success
        /\ Exists(req[p].id)
        /\ accounts[req[p].id].is_frozen

\* C13: once a transfer of X from A to B has succeeded, a later GetHistory(A) and a
\* later GetHistory(B) each answer a list holding a Transfer entry with amount X.
C13_HistoryShowsTransfer ==
    [][\A q \in Procs : \A p \in Procs \ {q} :
          (/\ Serves(q, "get_history")
           /\ Succeeded(p)
           /\ req'[q].id \in {req[p].from_account, req[p].to_account}) =>
              /\ resp'[q].kind = "GetHistoryResponse"
              /\ \E i \in DOMAIN resp'[q].actions :
                    /\ resp'[q].actions[i].kind = "Transfer"
                    /\ resp'[q].actions[i].amount = req[p].amount]_vars

\* C14: GetHistory for an identity that was never created answers NotFound; it
\* answers an empty list without error only for an existing account.
C14_HistoryOfUnknownIsNotFound ==
    [][\A p \in Procs :
          Serves(p, "get_history") =>
             IF Exists(req'[p].id)
                THEN resp'[p].kind = "GetHistoryResponse"
                ELSE resp'[p] = StatusNotFound]_vars

\* Task q is serving a request equal, field by field, to one that has succeeded.
ReplayOf(q) == \E p \in Procs \ {q} : Succeeded(p) /\ req[p] = req[q]

\* A resubmitted request goes through every step of a transfer and succeeds, the
\* ledger being judged as the resubmission reads it: both accounts unfrozen, the
\* source's balance covering the amount and, when `room_needed`, the destination's
\* balance leaving room for it.
ReplaySucceeds(room_needed) ==
    \A q \in Procs :
        /\ (/\ pc[q] = "idle"
            /\ IsTransfer(q)'
            /\ \E p \in Procs \ {q} : Succeeded(p) /\ req[p] = req'[q]) =>
               pc'[q] = "get_to"
        /\ (/\ Leaves(q, "get_to")
            /\ ReplayOf(q)
            /\ ~from_account[q].is_frozen
            /\ ~accounts[req[q].to_account].is_frozen) =>
               pc'[q] = "lock"
        /\ (/\ Leaves(q, "lock")
            /\ ReplayOf(q)
            /\ req[q].amount <= from_account[q].balance
            /\ room_needed => to_account[q].balance + req[q].amount <= U64_MAX) =>
               /\ pc'[q] = "credit"
               /\ accounts'[req[q].from_account].balance
                     = from_account[q].balance - req[q].amount
        /\ (Leaves(q, "credit") /\ ReplayOf(q)) =>
               /\ Succeeded(q)'
               /\ accounts'[req[q].to_account].balance
                     = to_account[q].balance + req[q].amount

\* C15 as stated: a request equal to one that succeeded succeeds again, with its
\* debit and its credit, whenever both accounts are unfrozen and the source's
\* balance covers the amount.
C15_ReplaySucceedsWhenCovered == [][ReplaySucceeds(FALSE)]_vars

\* C15, amended: a request equal to one that succeeded succeeds again, with its
\* debit and its credit, whenever both accounts are unfrozen, the source's balance
\* covers the amount and the destination's balance plus the amount stays within
\* U64_MAX.
C15_ReplaySucceedsWhenCoveredAndRoom == [][ReplaySucceeds(TRUE)]_vars

\* C15 witness: a request and its resubmission have both succeeded, moving a
\* positive amount between two accounts twice.
C15_Witness ==
    \E p \in Procs, q \in Procs :
        /\ p # q
        /\ Succeeded(p)
        /\ Succeeded(q)
        /\ req[p] = req[q]
        /\ req[p].amount > 0
        /\ req[p].from_account # req[p].to_account
        /\ Balance(req[p].to_account) = 2 * req[p].amount

\* C16: CreateAccount either inserts exactly one new record, under an identity that
\* was not in the map, with the requested name and balance and is_frozen = FALSE,
\* or, when the generated identity already exists, fails with a conflict and leaves
\* the map unchanged.
C16_CreateNeverReplaces ==
    [][\A p \in Procs :
          Serves(p, "create_account") =>
             \/ /\ resp'[p].kind = "CreateAccountResponse"
                /\ ~Exists(resp'[p].account.id)
                /\ accounts' = Insert(accounts, resp'[p].account.id,
                                      Account(resp'[p].account.id, req'[p].name,
                                              req'[p].balance, FALSE))
             \/ /\ resp'[p].kind = "Status"
                /\ resp'[p].code = "AlreadyExists"
                /\ accounts' = accounts]_vars

\* C17: under a fair mutex every transfer in flight, wherever it stands, returns,
\* and the lock is free again and again, so that every handler that takes it once
\* (create_account, get_account, freeze_account, unfreeze_account) gets its turn
\* and returns, get_history needing no lock at all; no task waits for a lock it
\* holds itself.
C17_EveryRequestReturns ==
    /\ \A p \in Procs : (pc[p] \in {"get_to", "lock", "credit"}) ~> (pc[p] = "done")
    /\ []<>(lock = NoProc)
    /\ [](\A p \in Procs : pc[p] \in {"get_to", "lock"} => lock # p)

\* C17 witness: one transfer holds the guard between its two writes while another
\* task's transfer waits for the lock, its checks passed.
C17_Witness ==
    \E p \in Procs, q \in Procs :
        /\ pc[p] = "credit"
        /\ lock = p
        /\ pc[q] = "lock"

\* C18: when update_balances has returned an error, the account map is the map
\* it was called with, whatever that map holds: no debit and no credit applied.
C18_ErrorLeavesMapUntouched ==
    \A p \in Procs :
        (/\ pc[p] = "done"
         /\ IsTransfer(p)
         /\ resp[p].kind = "TransferResult"
         /\ resp[p].error # NoError) =>
            accounts = initial_accounts

\* C19: no step changes the balance of an account that is frozen when the step is
\* taken: from a successful FreezeAccount(A) until A is unfrozen, balance(A) stays,
\* also for transfers whose freeze check ran before the freeze.
C19_FrozenBalanceNeverChanges ==
    [][\A id \in DOMAIN accounts :
          accounts[id].is_frozen => accounts'[id].balance = accounts[id].balance]_vars

\* The kind of request task p works on in this step.
StepOp(p) == IF pc[p] = "idle" THEN req'[p].op ELSE req[p].op

\* Every field of every account but the listed ones keeps its value, and no account
\* is added or removed.
OnlyBalancesOf(ids) ==
    /\ DOMAIN accounts' = DOMAIN accounts
    /\ \A id \in DOMAIN accounts :
          /\ accounts'[id].id = accounts[id].id
          /\ accounts'[id].name = accounts[id].name
          /\ accounts'[id].is_frozen = accounts[id].is_frozen
          /\ id \notin ids => accounts'[id].balance = accounts[id].balance
OnlyFlagOf(id) ==
    /\ DOMAIN accounts' = DOMAIN accounts
    /\ \A k \in DOMAIN accounts :
          /\ accounts'[k].id = accounts[k].id
          /\ accounts'[k].name = accounts[k].name
          /\ accounts'[k].balance = accounts[k].balance
          /\ k # id => accounts'[k].is_frozen = accounts[k].is_frozen

\* C20: a step of a Transfer, successful or not, changes nothing but the balances
\* of its source and destination; a step of FreezeAccount or UnfreezeAccount changes
\* nothing but the frozen flag of the account it names; GetAccount and GetHistory
\* change nothing.
C20_OperationsChangeOnlyTheirFields ==
    [][\A p \in Procs :
          pc'[p] # pc[p] =>
             /\ StepOp(p) = "create_transfer" =>
                   OnlyBalancesOf(IF pc[p] = "idle"
                                     THEN {req'[p].from_account, req'[p].to_account}
                                     ELSE {req[p].from_account, req[p].to_account})
             /\ StepOp(p) \in {"freeze_account", "unfreeze_account"} =>
                   OnlyFlagOf(IF pc[p] = "idle" THEN req'[p].id ELSE req[p].id)
             /\ StepOp(p) \in {"get_account", "get_history"} =>
                   accounts' = accounts]_vars

\* C20 witness: a transfer of a positive amount has succeeded while another task
\* froze an account in between; the flag is as the freeze left it.
C20_Witness ==
    \E p \in Procs, q \in Procs :
        /\ Succeeded(p)
        /\ req[p].amount > 0
        /\ pc[q] = "done"
        /\ req[q].op = "freeze_account"
        /\ resp[q].kind = "FreezeAccountResponse"
        /\ resp[q].success
        /\ req[q].id = req[p].to_account
        /\ accounts[req[q].id].is_frozen
====
